---- MODULE Spec2Model ----
(***************************************************************************)
(* Trace reconstruction and search of the dashboard backend                *)
(* (dashboard/backend/app/services/jaeger_service.py), with its trace      *)
(* endpoint, the health aggregation and the passport session cache.        *)
(*                                                                         *)
(* JSON values read from Jaeger are records [t, v]: t is the JSON type     *)
(* ("str", "bool") or "none" for Python's None, v the value as a string.   *)
(* Times are microseconds counted from a base epoch, small enough for      *)
(* TLC's integers; a datetime is a record [sec, usec].  The process's      *)
(* local timezone is taken to have a fixed UTC offset.                     *)
(***************************************************************************)
EXTENDS Integers, Sequences, FiniteSets, TLC

VARIABLES
    store,    \* the upstream Jaeger store: a sequence of raw trace blobs
    pc,       \* "idle" before the call, "done" after it
    call,     \* the operation that ran and its arguments
    sent,     \* the requests issued to the upstream store, in order
    result,   \* what the call returned or raised
    svc,      \* the fields of the shared JaegerService instance, and for the
              \* AIAI proxy the passport credentials of the settings
    tasks,    \* the coroutines running concurrently: their place and locals
    cache,    \* PassportAuthService._session_cache: cache key -> client
    clients   \* the HTTP clients created so far: their user and whether closed

vars == <<store, pc, call, sent, result, svc, tasks, cache, clients>>

\* What a call of one coroutine at a time leaves alone
others == <<svc, tasks, cache, clients>>

-----------------------------------------------------------------------------
(* Python values *)

None == [t |-> "none", v |-> ""]
PyS(s) == [t |-> "str", v |-> s]
PyTrue == [t |-> "bool", v |-> "true"]
PyFalse == [t |-> "bool", v |-> "false"]

\* bool(x): None, False and "" are falsy
Truthy(x) ==
    CASE x.t = "none" -> FALSE
      [] x.t = "bool" -> x.v = "true"
      [] OTHER -> x.v # ""

\* a or b
PyOr(a, b) == IF Truthy(a) THEN a ELSE b

\* str(x)
PyStr(x) ==
    CASE x.t = "none" -> PyS("None")
      [] x.t = "bool" -> PyS(IF x.v = "true" THEN "True" ELSE "False")
      [] OTHER -> x

\* x == True
EqTrue(x) == x.t = "bool" /\ x.v = "true"

\* {e["key"]: e["value"] for e in entries}: a later entry replaces an earlier one
DictOf(entries) ==
    [k \in {entries[i].key : i \in DOMAIN entries} |->
        LET last == CHOOSE i \in DOMAIN entries :
                        /\ entries[i].key = k
                        /\ \A j \in DOMAIN entries : entries[j].key = k => j <= i
        IN  entries[last].value]

\* d.get(k)
DictGet(d, k) == IF k \in DOMAIN d THEN d[k] ELSE None

\* d.get(k, default) on a raw JSON object: a key the object lacks is a field
\* the record lacks
Get(d, k, default) == IF k \in DOMAIN d THEN d[k] ELSE default

-----------------------------------------------------------------------------
(* datetime *)

\* datetime.fromtimestamp(us / 1_000_000)
FromTimestamp(us) == [sec |-> us \div 1000000, usec |-> us % 1000000]

\* a <= b on datetimes
DtLe(a, b) == a.sec < b.sec \/ (a.sec = b.sec /\ a.usec <= b.usec)

\* Mutant: the operands of the subtraction are exchanged
DtSub_Reversed(a, b) == (b.sec - a.sec) * 1000000 + (b.usec - a.usec)

\* (a - b) as a timedelta, in microseconds
DtSub(a, b) == (a.sec - b.sec) * 1000000 + (a.usec - b.usec)

DtMin(S) == CHOOSE a \in S : \A b \in S : DtLe(a, b)
DtMax(S) == CHOOSE a \in S : \A b \in S : DtLe(b, a)

\* The timedeltas below 3 s for which the double product
\* total_seconds() * 1000 falls just under the whole millisecond
FloatShort ==
    {1001000, 1003000, 1005000, 1007000, 1009000, 1011000, 1013000, 1015000,
     1017000, 1019000, 1021000, 1023000, 2002000, 2006000, 2010000, 2014000,
     2018000, 2022000, 2026000, 2030000, 2034000, 2038000, 2042000, 2046000}

\* Mutant: the factor 1000 is left out, the result is in seconds
TotalMs_Seconds(d) == d \div 1000000

\* int(td.total_seconds() * 1000) of a timedelta of d microseconds, 0 <= d < 3 s
TotalMs(d) == IF d \in FloatShort THEN (d \div 1000) - 1 ELSE d \div 1000

-----------------------------------------------------------------------------
(* JaegerService: reconstruction *)

OK == "ok"
FAILED == "failed"

\* The configured service name (settings.jaeger_service_name)
ServiceName == "AIAssistantInfra/aiai-api"

\* The fields JaegerService.__init__ sets from the settings
Settings ==
    [base_url |-> "https://eu2-supstg-disttracing.3dx-staging.3ds.com",
     service_name |-> ServiceName, timeout |-> 30]

\* A raw span is a record of the fields its JSON object carries; the code
\* reads them with .get and a default, but for s["spanID"], t["key"],
\* t["value"], f["key"] and f["value"]

\* Mutant: the last tag of that key is taken, as a dict of the tags would give
_extract_tag_Last(span, tag_name) ==
    LET tags == Get(span, "tags", <<>>)
        hits == {i \in DOMAIN tags : "key" \in DOMAIN tags[i] /\ tags[i].key = tag_name}
    IN  IF hits = {} THEN None
        ELSE PyStr(Get(tags[CHOOSE i \in hits : \A j \in hits : j <= i], "value", None))

\* _extract_tag: str() of the first tag whose key is tag_name
_extract_tag(span, tag_name) ==
    LET tags == Get(span, "tags", <<>>)
        hits == {i \in DOMAIN tags : "key" \in DOMAIN tags[i] /\ tags[i].key = tag_name}
    IN  IF hits = {} THEN None
        ELSE PyStr(Get(tags[CHOOSE i \in hits : \A j \in hits : i <= j], "value", None))

\* Mutant: only a span without references is a root
IsRootCandidate_NoRefsOnly(span, span_ids) == Get(span, "references", <<>>) = <<>>

\* The test of the loop body of _find_root_span: the span is returned
IsRootCandidate(span, span_ids) ==
    LET refs == Get(span, "references", <<>>)
        parent_refs == SelectSeq(refs, LAMBDA r : "refType" \in DOMAIN r
                                                  /\ r.refType = "CHILD_OF")
    IN  \/ refs = <<>>
        \/ parent_refs = <<>>
        \/ "spanID" \notin DOMAIN parent_refs[1]
        \/ parent_refs[1].spanID \notin span_ids

\* _find_root_span: the index of the first candidate, 0 for Python's None
_find_root_span(spans) ==
    LET span_ids == {spans[i].spanID : i \in DOMAIN spans}
        cands == {i \in DOMAIN spans : IsRootCandidate(spans[i], span_ids)}
    IN  IF cands = {} THEN 0
        ELSE CHOOSE i \in cands : \A j \in cands : i <= j

\* Mutant: a span is put before the spans of its own start time
RECURSIVE InsertByStart_BeforeEquals(_, _)
InsertByStart_BeforeEquals(sorted, s) ==
    IF sorted = <<>> THEN <<s>>
    ELSE IF Get(Head(sorted), "startTime", 0) < Get(s, "startTime", 0)
         THEN <<Head(sorted)>> \o InsertByStart_BeforeEquals(Tail(sorted), s)
         ELSE <<s>> \o sorted

\* sorted(spans, key=startTime): a stable sort, by insertion after the equals
RECURSIVE InsertByStart(_, _)
InsertByStart(sorted, s) ==
    IF sorted = <<>> THEN <<s>>
    ELSE IF Get(Head(sorted), "startTime", 0) <= Get(s, "startTime", 0)
         THEN <<Head(sorted)>> \o InsertByStart(Tail(sorted), s)
         ELSE <<s>> \o sorted

\* Mutant: the spans are left in input order
SortedByStart_InputOrder(spans) == spans

RECURSIVE SortedByStart(_)
SortedByStart(spans) ==
    IF spans = <<>> THEN <<>>
    ELSE InsertByStart(SortedByStart(SubSeq(spans, 1, Len(spans) - 1)),
                       spans[Len(spans)])

\* Mutant: the error-message tag is preferred to the status description
TagStatus_MessageFirst(tags) ==
    IF EqTrue(DictGet(tags, "error")) \/ DictGet(tags, "otel.status_code") = PyS("ERROR")
    THEN [status |-> FAILED,
          error  |-> PyOr(DictGet(tags, "error.message"),
                          DictGet(tags, "otel.status_description"))]
    ELSE [status |-> OK, error |-> None]

\* The tag-based check: status and error message before the logs are read
TagStatus(tags) ==
    IF EqTrue(DictGet(tags, "error")) \/ DictGet(tags, "otel.status_code") = PyS("ERROR")
    THEN [status |-> FAILED,
          error  |-> PyOr(DictGet(tags, "otel.status_description"),
                          DictGet(tags, "error.message"))]
    ELSE [status |-> OK, error |-> None]

\* Mutant: the message of a log entry replaces the one already found
LogStep_Overwrite(acc, log) ==
    LET log_fields == DictOf(Get(log, "fields", <<>>))
    IN  IF "error" \in DOMAIN log_fields \/ "exception" \in DOMAIN log_fields
        THEN [status |-> FAILED,
              error  |-> PyOr(PyOr(DictGet(log_fields, "message"),
                                   DictGet(log_fields, "error")), acc.error)]
        ELSE acc

\* One pass of the loop over the span's logs
LogStep(acc, log) ==
    LET log_fields == DictOf(Get(log, "fields", <<>>))
    IN  IF "error" \in DOMAIN log_fields \/ "exception" \in DOMAIN log_fields
        THEN [status |-> FAILED,
              error  |-> PyOr(PyOr(acc.error, DictGet(log_fields, "message")),
                              DictGet(log_fields, "error"))]
        ELSE acc

\* The loop over the logs, from the tag-based result
RECURSIVE LogFold(_, _)
LogFold(acc, logs) ==
    IF logs = <<>> THEN acc ELSE LogFold(LogStep(acc, Head(logs)), Tail(logs))

\* Mutant: the duration is rounded to the nearest millisecond
DurationMs_Rounded(duration_us) == (duration_us + 500) \div 1000

\* duration_us // 1000
DurationMs(duration_us) == duration_us \div 1000

\* The body of the loop of _parse_spans_to_steps: one span's TraceStep
StepOf(span) ==
    LET tags == DictOf(Get(span, "tags", <<>>))
        st   == LogFold(TagStatus(tags), Get(span, "logs", <<>>))
        duration_us == Get(span, "duration", 0)
    IN  [name        |-> Get(span, "operationName", "unknown"),
         status      |-> st.status,
         start_time  |-> FromTimestamp(Get(span, "startTime", 0)),
         end_time    |-> FromTimestamp(Get(span, "startTime", 0) + duration_us),
         duration_ms |-> DurationMs(duration_us),
         error       |-> st.error,
         data        |-> tags,
         span_id     |-> Get(span, "spanID", None)]

\* Mutant: steps are keyed by span identifier, so spans sharing one are merged
_parse_spans_to_steps_KeyedById(spans) ==
    LET sorted_spans == SortedByStart(spans)
        firsts == SelectSeq([i \in 1..Len(sorted_spans) |-> [i |-> i, span |-> sorted_spans[i]]],
                            LAMBDA e : \A j \in 1..(e.i - 1) :
                                          sorted_spans[j].spanID # e.span.spanID)
    IN  [i \in 1..Len(firsts) |-> StepOf(firsts[i].span)]

_parse_spans_to_steps(spans) ==
    LET sorted_spans == SortedByStart(spans)
    IN  [i \in 1..Len(sorted_spans) |-> StepOf(sorted_spans[i])]

\* Mutant: the loop keeps the status of the last step it saw
OverallStatus_LastStep(steps) == steps[Len(steps)].status

\* The overall status loop of _parse_trace
OverallStatus(steps) ==
    IF \E i \in DOMAIN steps : steps[i].status = FAILED THEN FAILED ELSE OK

NotFound == [kind |-> "none"]
Raised(e) == [kind |-> "raise", error |-> e]

\* if not data: return None
NoData(data) == data = <<>>

\* Mutant: the guard on an empty span list is missing
NoSpans_Unchecked(spans) == FALSE

\* if not spans: return None
NoSpans(spans) == spans = <<>>

\* Mutant: the fallback takes the last span
RootOrFirst_Last(spans, found) == IF found = 0 THEN spans[Len(spans)] ELSE spans[found]

\* root_span = self._find_root_span(spans); if not root_span: root_span = spans[0]
RootOrFirst(spans, found) == IF found = 0 THEN spans[1] ELSE spans[found]

\* {t["key"]: t["value"] for t in entries}: an entry without a key or without
\* a value is a KeyError
LacksKeyOrValue(entries) ==
    \E i \in DOMAIN entries : {"key", "value"} \ DOMAIN entries[i] # {}

\* {s["spanID"] for s in spans}: a span without an identifier is a KeyError
LacksSpanId(spans) == \E i \in DOMAIN spans : "spanID" \notin DOMAIN spans[i]

\* The dict comprehensions of _parse_spans_to_steps, over the tags of every
\* span and the fields of every log entry
LacksTagOrField(spans) ==
    \E i \in DOMAIN spans :
        \/ LacksKeyOrValue(Get(spans[i], "tags", <<>>))
        \/ LET logs == Get(spans[i], "logs", <<>>)
           IN  \E j \in DOMAIN logs : LacksKeyOrValue(Get(logs[j], "fields", <<>>))

\* _parse_trace past its two guards; spans[0] of an empty list is an IndexError
Assemble(trace_data) ==
    LET trace_id == trace_data.traceID
        spans    == trace_data.spans
    IN  IF spans = <<>> THEN Raised("IndexError")
        ELSE IF LacksSpanId(spans) \/ LacksTagOrField(spans) THEN Raised("KeyError")
        ELSE
        LET found      == _find_root_span(spans)
            root_span  == RootOrFirst(spans, found)
            request_id == PyOr(_extract_tag(root_span, "request_id"), PyS(trace_id))
            user_id    == PyOr(_extract_tag(root_span, "user_id"),
                               _extract_tag(root_span, "user"))
            steps      == _parse_spans_to_steps(spans)
            start_time == DtMin({steps[i].start_time : i \in DOMAIN steps})
            end_time   == DtMax({steps[i].end_time : i \in DOMAIN steps})
        IN  [kind        |-> "trace",
             request_id  |-> request_id,
             trace_id    |-> trace_id,
             timestamp   |-> start_time,
             status      |-> OverallStatus(steps),
             user_id     |-> user_id,
             duration_ms |-> TotalMs(DtSub(end_time, start_time)),
             steps       |-> steps,
             service     |-> ServiceName,
             operation   |-> Get(root_span, "operationName", None)]

\* _parse_trace on {"data": data}
_parse_trace(data) ==
    IF NoData(data) THEN NotFound
    ELSE IF NoSpans(data[1].spans) THEN NotFound
    ELSE Assemble(data[1])

-----------------------------------------------------------------------------
(* JaegerService: the calls *)

\* What the upstream store can answer to one GET
Outcomes == {"ok", "404", "500", "timeout", "connect_error", "bad_json"}

\* Mutant: a request that failed is sent once more
Requests_Retry(request, outcome) ==
    IF outcome \in {"500", "timeout", "connect_error"} THEN <<request, request>>
    ELSE <<request>>

\* The requests one call sends through its `async with httpx.AsyncClient`
\* block: the one client.get, whatever the answer
Requests(request, outcome) == <<request>>

\* get_trace(trace_id): one GET, then _parse_trace of the body; a 404 is None,
\* every other failure is raised again
GetTraceResult(outcome, data) ==
    CASE outcome = "ok"  -> _parse_trace(data)
      [] outcome = "404" -> NotFound
      [] OTHER           -> Raised(outcome)

GetTrace(Outs) ==
    /\ pc = "idle"
    /\ \E trace_id \in {store[i].traceID : i \in DOMAIN store} \cup {"absent"},
          outcome \in Outs :
         \E data \in IF outcome = "ok"
                     THEN {SelectSeq(store, LAMBDA b : b.traceID = trace_id), <<>>}
                     ELSE {<<>>} :
            /\ call' = [op |-> "get_trace", trace_id |-> trace_id,
                        outcome |-> outcome, data |-> data]
            /\ sent' = sent \o Requests([method |-> "GET", path |-> "/api/traces/{id}",
                                          trace_id |-> trace_id], outcome)
            /\ result' = GetTraceResult(outcome, data)
    /\ pc' = "done"
    /\ UNCHANGED <<store, others>>

\* reconstruction called on a raw blob directly
Reconstruct ==
    /\ pc = "idle"
    /\ \E data \in {SubSeq(store, i, Len(store)) : i \in 1..(Len(store) + 1)} :
         /\ call' = [op |-> "_parse_trace", outcome |-> "ok", data |-> data]
         /\ result' = _parse_trace(data)
    /\ pc' = "done"
    /\ UNCHANGED <<store, sent, others>>

\* int(dt.timestamp() * 1_000_000) of a naive datetime, which timestamp()
\* reads in the process's local zone (zone seconds east of UTC); the product
\* is exact at microsecond resolution, and the integer n is written
\* [sec |-> n \div 10^6, usec |-> n % 10^6]
EpochMicros(dt, zone) == [sec |-> dt.sec - zone, usec |-> dt.usec]

\* dt - timedelta(hours=1)
MinusOneHour(dt) == [sec |-> dt.sec - 3600, usec |-> dt.usec]

\* Mutant: the status and user filters are sent upstream as well
QueryParams_WithFilters(params, now1, now2, zone) ==
    [service |-> ServiceName, limit |-> params.limit,
     end |-> EpochMicros(now1, zone), start |-> EpochMicros(MinusOneHour(now2), zone),
     status |-> params.status, user |-> params.user_id]

\* The query parameters search_traces builds; now1 and now2 are its two
\* reads of datetime.utcnow()
QueryParams(params, now1, now2, zone) ==
    LET base == [service |-> ServiceName,
                 limit   |-> params.limit,
                 end     |-> IF params.end_time.t # "none"
                             THEN EpochMicros(params.end_time, zone)
                             ELSE EpochMicros(now1, zone),
                 start   |-> IF params.start_time.t # "none"
                             THEN EpochMicros(params.start_time, zone)
                             ELSE EpochMicros(MinusOneHour(now2), zone)]
    IN  IF Truthy(params.operation)
        THEN [k \in DOMAIN base \cup {"operation"} |->
                 IF k = "operation" THEN params.operation ELSE base[k]]
        ELSE base

\* Mutant: the filters are not applied, every reconstructed trace is kept
Keeps_Unfiltered(params, trace) == trace.kind = "trace"

\* Mutant: the user filter is forgotten
Keeps_StatusOnly(params, trace) ==
    /\ trace.kind = "trace"
    /\ ~(Truthy(params.status) /\ trace.status # params.status.v)

\* The filter of the loop of search_traces: the trace is appended
Keeps(params, trace) ==
    /\ trace.kind = "trace"
    /\ ~(Truthy(params.status) /\ trace.status # params.status.v)
    /\ ~(Truthy(params.user_id) /\ trace.user_id # params.user_id)

\* The loop of search_traces over data["data"]
RECURSIVE FilterTraces(_, _)
FilterTraces(params, page) ==
    IF page = <<>> THEN <<>>
    ELSE LET trace == _parse_trace(<<Head(page)>>)
             rest  == FilterTraces(params, Tail(page))
         IN  IF Keeps(params, trace) THEN <<trace>> \o rest ELSE rest

\* Mutant: the list is returned whole
FirstN_All(traces, limit) == traces

\* traces[:limit]
FirstN(traces, limit) ==
    SubSeq(traces, 1, IF Len(traces) < limit THEN Len(traces) ELSE limit)

\* Mutant: a full page already counts as more
HasMore_AtLeast(traces, limit) == Len(traces) >= limit

\* len(traces) > limit
HasMore(traces, limit) == Len(traces) > limit

\* Mutant: a trace whose reconstruction raises is left out of the result
SearchResult_SkipFailed(params, page) ==
    LET traces == FilterTraces(params,
                      SelectSeq(page, LAMBDA b : _parse_trace(<<b>>).kind # "raise"))
    IN  [kind     |-> "search",
         total    |-> Len(traces),
         traces   |-> FirstN(traces, params.limit),
         has_more |-> HasMore(traces, params.limit)]

\* An exception inside the loop leaves search_traces through its except clause
SearchResult(params, page) ==
    LET traces == FilterTraces(params, page)
        raises == {i \in DOMAIN page : _parse_trace(<<page[i]>>).kind = "raise"}
    IN  IF raises # {}
        THEN _parse_trace(<<page[CHOOSE i \in raises : \A j \in raises : i <= j]>>)
        ELSE
        [kind     |-> "search",
         total    |-> Len(traces),
         traces   |-> FirstN(traces, params.limit),
         has_more |-> HasMore(traces, params.limit)]

\* search_traces(params) with params drawn from P, the clock reads from Clock,
\* the process's zone from Zones and the upstream's answer from Outs;
\* raise_for_status raises on a 404 as well
SearchTraces(P, Clock, Zones, Outs) ==
    /\ pc = "idle"
    /\ \E params \in P, now1 \in Clock, now2 \in Clock, zone \in Zones, outcome \in Outs :
         /\ DtLe(now1, now2)
         /\ call' = [op |-> "search_traces", params |-> params, outcome |-> outcome,
                    data |-> IF outcome = "ok" THEN store ELSE <<>>,
                    now1 |-> now1, now2 |-> now2, zone |-> zone]
         /\ sent' = sent \o Requests([method |-> "GET", path |-> "/api/traces",
                                       params |-> QueryParams(params, now1, now2, zone)],
                                      outcome)
         /\ result' = IF outcome = "ok" THEN SearchResult(params, store)
                      ELSE Raised(outcome)
    /\ pc' = "done"
    /\ UNCHANGED <<store, others>>

\* The answers to a listing request: the body's data list, or a body
\* without one
Listings == {[data |-> <<>>], [data |-> <<"op1", "op2">>], [status |-> "ok"]}

\* get_services and get_operations past the GET: data.get("data", []), and
\* every failure of the GET, a 404 as well, is raised again
ListingResult(outcome, body) ==
    IF outcome = "ok" THEN [kind |-> "list", items |-> Get(body, "data", <<>>)]
    ELSE Raised(outcome)

\* get_services(): one GET of /api/services
GetServices(Outs) ==
    /\ pc = "idle"
    /\ \E outcome \in Outs, body \in Listings :
         /\ call' = [op |-> "get_services", outcome |-> outcome,
                     data |-> IF outcome = "ok" THEN <<body>> ELSE <<>>]
         /\ sent' = sent \o Requests([method |-> "GET", path |-> "/api/services"], outcome)
         /\ result' = ListingResult(outcome, body)
    /\ pc' = "done"
    /\ UNCHANGED <<store, others>>

\* get_operations(service): service or the configured name, then one GET of
\* /api/services/{service}/operations
GetOperations(Services, Outs) ==
    /\ pc = "idle"
    /\ \E service \in Services, outcome \in Outs, body \in Listings :
         /\ call' = [op |-> "get_operations", service |-> service, outcome |-> outcome,
                     data |-> IF outcome = "ok" THEN <<body>> ELSE <<>>]
         /\ sent' = sent \o Requests([method |-> "GET",
                                       path |-> "/api/services/{service}/operations",
                                       service |-> PyOr(service, PyS(ServiceName))],
                                      outcome)
         /\ result' = ListingResult(outcome, body)
    /\ pc' = "done"
    /\ UNCHANGED <<store, others>>

-----------------------------------------------------------------------------
(* Inputs *)

\* The most spans in one raw trace
MaxSpans == 3

Tag(k, v) == [key |-> k, value |-> v]
Ref(t, id) == [refType |-> t, spanID |-> id]
Log(fields) == [fields |-> fields]

\* operationName labels a span by its place in the input, as the list's
\* objects are told apart in Python
OpNames == [i \in 1..(MaxSpans + 1) |-> <<"op1", "op2", "op3", "op4", "op5">>[i]]

Named(shapes) ==
    [i \in DOMAIN shapes |->
        [spanID        |-> shapes[i].spanID,
         operationName |-> OpNames[i],
         references    |-> shapes[i].references,
         startTime     |-> shapes[i].startTime,
         duration      |-> shapes[i].duration,
         tags          |-> shapes[i].tags,
         logs          |-> shapes[i].logs]]

SeqsUpTo(S, n) == UNION {[1..k -> S] : k \in 0..n}

Shapes(ids, refs, starts, durations, tags, logs) ==
    [spanID : ids, references : refs, startTime : starts, duration : durations,
     tags : tags, logs : logs]

Blob(id, shapes) == [traceID |-> id, spans |-> Named(shapes)]

NoDt == None
Dt(s, u) == [t |-> "dt", sec |-> s, usec |-> u]

\* Search parameters: the defaults of TraceSearchParams but for the limit
DefaultParams ==
    [start_time : {NoDt}, end_time : {NoDt}, status : {None}, user_id : {None},
     limit : {1, 2}, operation : {None}]

ClockOne == {Dt(7200, 0)}

\* A process whose local zone is UTC
ZoneUtc == {0}

Idle ==
    /\ pc = "idle"
    /\ call = [op |-> "none", outcome |-> "none", data |-> <<>>]
    /\ sent = <<>>
    /\ result = [kind |-> "idle"]
    /\ svc = Settings
    /\ tasks = <<>>
    /\ cache = <<>>
    /\ clients = <<>>

\* The calls on one stored trace, with the answers an upstream store gives
Next ==
    \/ Reconstruct
    \/ GetTrace({"ok", "404", "500"})
    \/ SearchTraces(DefaultParams, ClockOne, ZoneUtc, {"ok", "timeout"})

(* Traces of up to MaxSpans spans that differ in identifier, start time,    *)
(* duration and error signal                                               *)
TimedShapes ==
    Shapes({"a", "b"}, {<<>>}, {0, 1000, 2500}, {1500},
           {<<>>, <<Tag("error", PyTrue)>>}, {<<>>})
    \cup Shapes({"a"}, {<<>>}, {0, 1000}, {999, 2000}, {<<>>}, {<<>>})
    \cup Shapes({"b"}, {<<>>}, {1000}, {1500}, {<<>>},
                {<<Log(<<Tag("exception", PyS("x1"))>>)>>})

Init ==
    /\ \E shapes \in SeqsUpTo(TimedShapes, MaxSpans) : store = <<Blob("t1", shapes)>>
    /\ Idle

Spec == Init /\ [][Next]_vars

(* Traces of up to MaxSpans spans that differ in identifier and references; *)
(* span i carries the tags request_id = r<i> and user_id = u<i>             *)
RefLists ==
    {<<>>, <<Ref("CHILD_OF", "a")>>, <<Ref("CHILD_OF", "b")>>,
     <<Ref("CHILD_OF", "x")>>, <<Ref("FOLLOWS_FROM", "a")>>,
     <<Ref("CHILD_OF", "x"), Ref("CHILD_OF", "a")>>}

RootShapes == Shapes({"a", "b"}, RefLists, {0}, {1500}, {<<>>}, {<<>>})

RequestIds == <<"r1", "r2", "r3", "r4", "r5">>
UserIds == <<"u1", "u2", "u3", "u4", "u5">>

Labelled(spans) ==
    [i \in DOMAIN spans |->
        [spans[i] EXCEPT !.tags = <<Tag("request_id", PyS(RequestIds[i])),
                                    Tag("user_id", PyS(UserIds[i]))>>]]

InitRoot ==
    /\ \E shapes \in SeqsUpTo(RootShapes, MaxSpans) :
          store = <<[traceID |-> "t1", spans |-> Labelled(Named(shapes))]>>
    /\ Idle

SpecRoot == InitRoot /\ [][Next]_vars

\* The most tags on one span, the most log entries on one span
MaxTags == 3
MaxLogs == 2

(* Traces of one or two spans: the root carries up to MaxTags identity      *)
(* tags, the other span, its child, carries none or a full set of its own  *)
IdentTags ==
    {Tag("request_id", PyS("")), Tag("request_id", PyS("r1")), Tag("request_id", PyS("r2")),
     Tag("user_id", PyS("")), Tag("user_id", PyS("u1")),
     Tag("user", PyS("")), Tag("user", PyS("u2")), Tag("user", PyFalse)}

ChildTags ==
    {<<>>, <<Tag("request_id", PyS("rX")), Tag("user_id", PyS("uX")), Tag("user", PyS("uY"))>>}

IdentTraces ==
    LET roots  == Shapes({"a"}, {<<>>}, {0}, {1500},
                         SeqsUpTo(IdentTags, MaxTags), {<<>>})
        childs == Shapes({"b"}, {<<Ref("CHILD_OF", "a")>>}, {1000}, {999}, ChildTags, {<<>>})
    IN  {<<r>> : r \in roots}
        \cup {<<r, c>> : r \in roots, c \in childs}
        \cup {<<c, r>> : r \in roots, c \in childs}

InitIdent ==
    /\ \E shapes \in IdentTraces : store = <<Blob("t1", shapes)>>
    /\ Idle

SpecIdent == InitIdent /\ [][Next]_vars

(* Traces of one span with up to MaxTags status tags and up to MaxLogs log  *)
(* entries                                                                 *)
StatusTags ==
    {Tag("error", PyTrue), Tag("otel.status_code", PyS("ERROR")),
     Tag("otel.status_description", PyS("")), Tag("otel.status_description", PyS("d1")),
     Tag("error.message", PyS("m1"))}

LogEntries ==
    {Log(<<Tag("error", PyS("e1"))>>),
     Log(<<Tag("exception", PyS("x1")), Tag("message", PyS("lm"))>>),
     Log(<<Tag("message", PyS("info"))>>)}

StepShapes ==
    Shapes({"a"}, {<<>>}, {0}, {1500},
           SeqsUpTo(StatusTags, MaxTags), SeqsUpTo(LogEntries, MaxLogs))

InitStep ==
    /\ \E shape \in StepShapes : store = <<Blob("t1", <<shape>>)>>
    /\ Idle

SpecStep == InitStep /\ [][Next]_vars

-----------------------------------------------------------------------------
(* What a state holds: the traces returned, and each with the blob it was   *)
(* reconstructed from                                                      *)

Traces ==
    CASE result.kind = "trace"  -> {result}
      [] result.kind = "search" -> {result.traces[i] : i \in DOMAIN result.traces}
      [] OTHER -> {}

\* The call reached _parse_trace with this body
Parsed == pc = "done" /\ call.op \in {"_parse_trace", "get_trace"} /\ call.outcome = "ok"

Pairs ==
    CASE result.kind = "trace" /\ Parsed -> {[blob |-> call.data[1], trace |-> result]}
      [] result.kind = "search" ->
            {[blob |-> store[ij[1]], trace |-> result.traces[ij[2]]] :
                ij \in {ij \in (DOMAIN store) \X (DOMAIN result.traces) :
                          store[ij[1]].traceID = result.traces[ij[2]].trace_id}}
      [] OTHER -> {}

StepFailed(t) == \E i \in DOMAIN t.steps : t.steps[i].status = "failed"

\* The span carries no error tag and no error or exception log field
Quiet(span) ==
    /\ \A i \in DOMAIN span.tags : span.tags[i].key \notin {"error", "otel.status_code"}
    /\ \A i \in DOMAIN span.logs : \A j \in DOMAIN span.logs[i].fields :
          span.logs[i].fields[j].key \notin {"error", "exception"}

-----------------------------------------------------------------------------
(* C1: a Trace is failed exactly when one of its Steps is failed, and ok    *)
(* otherwise: never skipped or in_progress; a Trace of spans without any    *)
(* error tag or error log is ok                                            *)
C1_StatusIffStepFailed ==
    /\ \A t \in Traces :
          /\ t.status = "failed" <=> StepFailed(t)
          /\ t.status # "failed" => t.status = "ok"
    /\ \A p \in Pairs :
          (\A i \in DOMAIN p.blob.spans : Quiet(p.blob.spans[i])) => p.trace.status = "ok"

\* A failed trace whose first two steps are ok and whose last is failed
C1_Witness ==
    /\ result.kind = "trace"
    /\ Len(result.steps) = 3
    /\ result.status = "failed"
    /\ result.steps[1].status = "ok"
    /\ result.steps[2].status = "ok"
    /\ result.steps[3].status = "failed"

(* C2: a non-empty span list gives exactly one Trace, with one Step per     *)
(* span: none dropped, merged or duplicated                                *)
C2_OneStepPerSpan ==
    /\ (Parsed /\ call.data # <<>> /\ call.data[1].spans # <<>>) => result.kind = "trace"
    /\ \A p \in Pairs :
          /\ Len(p.trace.steps) = Len(p.blob.spans)
          /\ \A i \in DOMAIN p.blob.spans :
                Cardinality({j \in DOMAIN p.trace.steps :
                    p.trace.steps[j].name = p.blob.spans[i].operationName}) = 1

\* Three spans with one identifier and one start time give three steps
C2_Witness ==
    /\ result.kind = "trace" /\ Parsed
    /\ Len(call.data[1].spans) = 3
    /\ \A i \in 1..3 : /\ call.data[1].spans[i].spanID = "a"
                       /\ call.data[1].spans[i].startTime = 1000
    /\ Len(result.steps) = 3

(* C3: an empty data list or an empty span list gives NotFound, and no      *)
(* Trace without Steps comes out of _parse_trace, get_trace or             *)
(* search_traces                                                           *)
C3_EmptyIsNotFound ==
    /\ (Parsed /\ (call.data = <<>> \/ call.data[1].spans = <<>>)) => result.kind = "none"
    /\ \A t \in Traces : Len(t.steps) >= 1
    /\ (result.kind = "search" /\ \A i \in DOMAIN store : store[i].spans = <<>>)
          => (result.total = 0 /\ result.traces = <<>>)

\* get_trace fetched a blob without spans and returned None
C3_Witness ==
    /\ call.op = "get_trace" /\ call.outcome = "ok"
    /\ call.data # <<>>
    /\ call.data[1].spans = <<>>
    /\ result.kind = "none"

(* C4: the Steps of a Trace are in non-decreasing order of start time       *)
C4_StepsSorted ==
    \A t \in Traces : \A i \in 1..(Len(t.steps) - 1) :
        \/ t.steps[i].start_time.sec < t.steps[i + 1].start_time.sec
        \/ /\ t.steps[i].start_time.sec = t.steps[i + 1].start_time.sec
           /\ t.steps[i].start_time.usec <= t.steps[i + 1].start_time.usec

\* The last span of the input is the earliest and comes out first
C4_Witness ==
    /\ result.kind = "trace" /\ Parsed
    /\ Len(call.data[1].spans) = 3
    /\ call.data[1].spans[1].startTime > call.data[1].spans[3].startTime
    /\ call.data[1].spans[2].startTime > call.data[1].spans[3].startTime
    /\ result.steps[1].name = "op3"

\* A datetime as microseconds since the base epoch
Micros(dt) == dt.sec * 1000000 + dt.usec

\* The step of that name
StepNamed(t, name) == t.steps[CHOOSE j \in DOMAIN t.steps : t.steps[j].name = name]

(* C10: a Step's duration_ms is its span's duration in microseconds        *)
(* divided by 1000 and floored (1500 gives 1, 999 gives 0, 2000 gives 2),  *)
(* and its end time is its start time plus the duration                    *)
C10_DurationFloored ==
    \A p \in Pairs : \A i \in DOMAIN p.blob.spans :
        LET span == p.blob.spans[i]
            step == StepNamed(p.trace, span.operationName)
        IN  /\ step.duration_ms * 1000 <= span.duration
            /\ span.duration < (step.duration_ms + 1) * 1000
            /\ span.duration = 1500 => step.duration_ms = 1
            /\ span.duration = 999 => step.duration_ms = 0
            /\ span.duration = 2000 => step.duration_ms = 2
            /\ Micros(step.start_time) = span.startTime
            /\ Micros(step.end_time) = span.startTime + span.duration

\* One trace with spans of 1500, 999 and 2000 microseconds
C10_Witness ==
    /\ result.kind = "trace" /\ Parsed
    /\ {call.data[1].spans[i].duration : i \in DOMAIN call.data[1].spans} = {999, 1500, 2000}
    /\ {result.steps[i].duration_ms : i \in DOMAIN result.steps} = {0, 1, 2}

-----------------------------------------------------------------------------
(* Root identification, on traces whose span i is labelled op<i>, r<i>,     *)
(* u<i>                                                                    *)

Ids(spans) == {spans[i].spanID : i \in DOMAIN spans}

ChildOfTargets(span) ==
    {span.references[k].spanID :
        k \in {k \in DOMAIN span.references : span.references[k].refType = "CHILD_OF"}}

\* The span has no references, or none of its child-of references points
\* into the set
NoParentInside(spans, i) ==
    \/ spans[i].references = <<>>
    \/ ChildOfTargets(spans[i]) \cap Ids(spans) = {}

\* The target of the first child-of reference of the span
FirstChildOf(span) ==
    LET ks == {k \in DOMAIN span.references : span.references[k].refType = "CHILD_OF"}
    IN  span.references[CHOOSE k \in ks : \A m \in ks : k <= m].spanID

\* The span has no references, or no child-of reference, or its first
\* child-of reference points outside the set
FirstParentOutside(spans, i) ==
    \/ spans[i].references = <<>>
    \/ ChildOfTargets(spans[i]) = {}
    \/ FirstChildOf(spans[i]) \notin Ids(spans)

Least(S) == CHOOSE i \in S : \A j \in S : i <= j

\* Span i supplied the operation, request_id and user_id of the trace
RootIs(trace, i) ==
    /\ trace.operation = OpNames[i]
    /\ trace.request_id = PyS(RequestIds[i])
    /\ trace.user_id = PyS(UserIds[i])

(* C5 as stated: the root is the first span, in input order, that has no    *)
(* references or none of whose child-of references points at a span        *)
(* identifier of the set                                                   *)
C5_Original ==
    \A p \in Pairs :
        LET spans == p.blob.spans
            quals == {i \in DOMAIN spans : NoParentInside(spans, i)}
        IN  quals # {} => RootIs(p.trace, Least(quals))

(* C5 amended: the root is the first span, in input order, that has no      *)
(* references, or no child-of reference, or whose first child-of reference *)
(* points outside the set; when every parent named lies outside the set    *)
(* the first span is the root and supplies operation, request_id and       *)
(* user_id                                                                 *)
C5_RootIsFirstWithoutInsideParent ==
    \A p \in Pairs :
        LET spans == p.blob.spans
            quals == {i \in DOMAIN spans : FirstParentOutside(spans, i)}
        IN  /\ quals # {} => RootIs(p.trace, Least(quals))
            /\ (\A i \in DOMAIN spans : ChildOfTargets(spans[i]) \cap Ids(spans) = {})
                  => RootIs(p.trace, 1)

\* The first span's parent is the second span, whose own parent is outside:
\* the second span is the root
C5_Witness ==
    /\ result.kind = "trace" /\ Parsed
    /\ Len(call.data[1].spans) = 2
    /\ call.data[1].spans[1].references = <<Ref("CHILD_OF", "b")>>
    /\ call.data[1].spans[2].spanID = "b"
    /\ call.data[1].spans[2].references = <<Ref("CHILD_OF", "x")>>
    /\ RootIs(result, 2)

(* C6 as stated: when every span has a child-of reference that points at    *)
(* an identifier of the set, the first span of the input is the root and a *)
(* Trace is returned                                                       *)
C6_Original ==
    /\ (Parsed /\ call.data # <<>> /\ call.data[1].spans # <<>>) => result.kind = "trace"
    /\ \A p \in Pairs :
          (\A i \in DOMAIN p.blob.spans :
              ChildOfTargets(p.blob.spans[i]) \cap Ids(p.blob.spans) # {})
          => RootIs(p.trace, 1)

(* C6 amended: when the first child-of reference of every span points at    *)
(* an identifier of the set (a reference cycle, say), the first span of    *)
(* the input is the root; a non-empty span list always gives a Trace,      *)
(* whatever its references                                                 *)
C6_FallbackToFirstSpan ==
    /\ (Parsed /\ call.data # <<>> /\ call.data[1].spans # <<>>) => result.kind = "trace"
    /\ \A p \in Pairs :
          (\A i \in DOMAIN p.blob.spans : ~FirstParentOutside(p.blob.spans, i))
          => RootIs(p.trace, 1)

\* Three spans in a reference cycle: no span qualifies, the first is the root
C6_Witness ==
    /\ result.kind = "trace" /\ Parsed
    /\ Len(call.data[1].spans) = 3
    /\ call.data[1].spans[1].spanID = "a"
    /\ call.data[1].spans[1].references = <<Ref("CHILD_OF", "b")>>
    /\ call.data[1].spans[2].spanID = "b"
    /\ call.data[1].spans[2].references = <<Ref("CHILD_OF", "a")>>
    /\ call.data[1].spans[3].references = <<Ref("CHILD_OF", "a")>>
    /\ RootIs(result, 1)

-----------------------------------------------------------------------------
(* Identity and status derivation *)

\* The first and the last entry of that key in a list of tags or log fields
Has(entries, k) == \E i \in DOMAIN entries : entries[i].key = k
First(entries, k) ==
    entries[Least({i \in DOMAIN entries : entries[i].key = k})].value
Last(entries, k) ==
    LET hits == {i \in DOMAIN entries : entries[i].key = k}
    IN  entries[CHOOSE i \in hits : \A j \in hits : j <= i].value

\* A value as the string Python's str() gives
AsString(x) ==
    IF x.t = "bool" THEN PyS(IF x.v = "true" THEN "True" ELSE "False") ELSE x

NonEmpty(x) == x # PyS("") /\ x # PyFalse /\ x # None

\* The span that supplied the operation name of the trace
RootOf(p) ==
    p.blob.spans[CHOOSE i \in DOMAIN p.blob.spans :
                    p.blob.spans[i].operationName = p.trace.operation]

(* C7 as stated: request_id is the root span's request_id tag whenever the  *)
(* tag is present, the trace identifier otherwise; user_id is the root's   *)
(* user_id tag when present, else its user tag when present, else absent   *)
C7_Original ==
    \A p \in Pairs :
        LET tags == RootOf(p).tags
        IN  /\ p.trace.request_id =
                   IF Has(tags, "request_id") THEN AsString(First(tags, "request_id"))
                   ELSE PyS(p.blob.traceID)
            /\ p.trace.user_id =
                   IF Has(tags, "user_id") THEN AsString(First(tags, "user_id"))
                   ELSE IF Has(tags, "user") THEN AsString(First(tags, "user"))
                   ELSE None

(* C7 amended: request_id is the string of the root span's first            *)
(* request_id tag whenever that tag is present and not empty, the trace    *)
(* identifier otherwise; user_id is the string of the root's first user_id *)
(* tag when present and not empty, else of its first user tag when         *)
(* present, else absent; the tags of other spans play no part              *)
C7_IdentityFromRootTags ==
    \A p \in Pairs :
        LET tags == RootOf(p).tags
        IN  /\ p.trace.request_id =
                   IF Has(tags, "request_id") /\ AsString(First(tags, "request_id")) # PyS("")
                   THEN AsString(First(tags, "request_id"))
                   ELSE PyS(p.blob.traceID)
            /\ p.trace.user_id =
                   IF Has(tags, "user_id") /\ AsString(First(tags, "user_id")) # PyS("")
                   THEN AsString(First(tags, "user_id"))
                   ELSE IF Has(tags, "user") THEN AsString(First(tags, "user"))
                   ELSE None

\* The root, given second, has an empty request_id tag and a user tag; the
\* other span has tags of its own: the trace takes the trace identifier and
\* the root's user
C7_Witness ==
    /\ result.kind = "trace" /\ Parsed
    /\ Len(call.data[1].spans) = 2
    /\ call.data[1].spans[1].tags # <<>>
    /\ call.data[1].spans[2].tags = <<Tag("request_id", PyS("")), Tag("user", PyS("u2"))>>
    /\ result.operation = "op2"
    /\ result.request_id = PyS("t1")
    /\ result.user_id = PyS("u2")

\* The span's tag mapping signals an error
TagSignal(span) ==
    \/ Has(span.tags, "error") /\ Last(span.tags, "error") = PyTrue
    \/ Has(span.tags, "otel.status_code") /\ Last(span.tags, "otel.status_code") = PyS("ERROR")

LogSignal(log) == Has(log.fields, "error") \/ Has(log.fields, "exception")

TagOrNone(span, k) == IF Has(span.tags, k) THEN Last(span.tags, k) ELSE None

UpTo(span, k) == [span EXCEPT !.logs = SubSeq(span.logs, 1, k)]

(* C9: the logs are read after the tags and only upgrade: a log entry with  *)
(* an error or exception field makes the Step failed, no log entry makes a *)
(* failed Step ok again, and a message already found, by the tags or by an *)
(* earlier log entry, is never replaced                                    *)
C9_LogsOnlyUpgrade ==
    \A p \in Pairs : \A i \in DOMAIN p.blob.spans :
        LET span == p.blob.spans[i]
            n    == Len(span.logs)
        IN  /\ StepNamed(p.trace, span.operationName) = StepOf(UpTo(span, n))
            /\ \A k \in 0..(n - 1) :
                  LET was == StepOf(UpTo(span, k))
                      now == StepOf(UpTo(span, k + 1))
                  IN  /\ was.status = "failed" => now.status = "failed"
                      /\ LogSignal(span.logs[k + 1]) => now.status = "failed"
                      /\ ~LogSignal(span.logs[k + 1]) => now = was
                      /\ NonEmpty(was.error) => now.error = was.error
                      /\ now.error # was.error =>
                            /\ LogSignal(span.logs[k + 1])
                            /\ now.error \in {span.logs[k + 1].fields[j].value :
                                                j \in DOMAIN span.logs[k + 1].fields}

\* Failed by its tags with the message d1, then two log entries with error
\* fields: still failed, still d1
C9_Witness ==
    /\ result.kind = "trace" /\ Parsed
    /\ Has(call.data[1].spans[1].tags, "error")
    /\ Has(call.data[1].spans[1].tags, "otel.status_description")
    /\ Len(call.data[1].spans[1].logs) = 2
    /\ \A k \in 1..2 : LogSignal(call.data[1].spans[1].logs[k])
    /\ result.steps[1].status = "failed"
    /\ result.steps[1].error = PyS("d1")

-----------------------------------------------------------------------------
(* Trace timing, on traces whose spans carry their own names: the three     *)
(* spans A (0 to 100 ms), B (child of A, 10 to 40 ms, error = true) and C   *)
(* (child of A, 50 to 90 ms), and spans of zero, sub-millisecond and        *)
(* second-long durations, all counted from one of two base times            *)

TimedSpan(name, id, refs, start, dur, tags) ==
    [spanID |-> id, operationName |-> name, references |-> refs,
     startTime |-> start, duration |-> dur, tags |-> tags, logs |-> <<>>]

SpanA == TimedSpan("A", "a", <<>>, 0, 100000, <<>>)
SpanB == TimedSpan("B", "b", <<Ref("CHILD_OF", "a")>>, 10000, 30000, <<Tag("error", PyTrue)>>)
SpanC == TimedSpan("C", "c", <<Ref("CHILD_OF", "a")>>, 50000, 40000, <<>>)

TimeSpans ==
    {SpanA, SpanB, SpanC,
     TimedSpan("D", "d", <<>>, 0, 1001000, <<>>),
     TimedSpan("E", "e", <<>>, 500, 0, <<>>),
     TimedSpan("F", "f", <<>>, 1000, 1000999, <<>>),
     TimedSpan("G", "g", <<>>, 999000, 1003000, <<>>)}

\* The start of the trace, in microseconds after the base epoch
Bases == {0, 777777}

Shifted(spans, base) ==
    [i \in DOMAIN spans |-> [spans[i] EXCEPT !.startTime = @ + base]]

InitTime ==
    /\ \E shapes \in SeqsUpTo(TimeSpans, MaxSpans), base \in Bases :
          store = <<[traceID |-> "t1", spans |-> Shifted(shapes, base)]>>
    /\ Idle

SpecTime == InitTime /\ [][Next]_vars

Lowest(S) == CHOOSE x \in S : \A y \in S : x <= y
Highest(S) == CHOOSE x \in S : \A y \in S : y <= x

StepStarts(t) == {Micros(t.steps[i].start_time) : i \in DOMAIN t.steps}
StepEnds(t) == {Micros(t.steps[i].end_time) : i \in DOMAIN t.steps}

(* C11 as stated: the timestamp of a Trace is the least start time of its   *)
(* Steps, and its duration_ms is the greatest Step end time minus the least *)
(* Step start time in whole milliseconds                                    *)
C11_Original ==
    \A t \in Traces :
        /\ Micros(t.timestamp) = Lowest(StepStarts(t))
        /\ t.duration_ms = (Highest(StepEnds(t)) - Lowest(StepStarts(t))) \div 1000

IsScenario(spans) ==
    /\ Len(spans) = 3
    /\ \E base \in Bases :
          {spans[i] : i \in DOMAIN spans}
              = {Shifted(<<SpanA, SpanB, SpanC>>, base)[k] : k \in 1..3}

(* C17: the spans A, B and C, given in any order, give a failed Trace of    *)
(* duration_ms 100 whose Steps are A, B, C in that order, B alone failed    *)
C17_ThreeSpanScenario ==
    \A p \in Pairs :
        IsScenario(p.blob.spans) =>
            /\ p.trace.status = "failed"
            /\ p.trace.duration_ms = 100
            /\ [i \in 1..3 |-> p.trace.steps[i].name] = <<"A", "B", "C">>
            /\ [i \in 1..3 |-> p.trace.steps[i].status] = <<"ok", "failed", "ok">>

\* The spans given as C, B, A
C17_Witness ==
    /\ result.kind = "trace" /\ Parsed
    /\ IsScenario(call.data[1].spans)
    /\ [i \in 1..3 |-> call.data[1].spans[i].operationName] = <<"C", "B", "A">>
    /\ [i \in 1..3 |-> result.steps[i].name] = <<"A", "B", "C">>
    /\ result.status = "failed"
    /\ result.duration_ms = 100

-----------------------------------------------------------------------------
(* Reordering of the input: the store holds two traces of the same spans,   *)
(* each in an order of its own; span k is named PermNames[k] and starts at  *)
(* one of PermStarts[k], so that some spans share a start time              *)

PermNames == <<"P", "Q", "R", "S", "T">>
PermStarts == <<{0}, {0, 500}, {1000}, {1000, 1500}, {500}>>

PermSpan(k, start) == TimedSpan(PermNames[k], "a", <<>>, start, 1500, <<>>)

\* The sequences that list every member of the set S once
Orderings(S) ==
    {f \in [1..Cardinality(S) -> S] : \A i, j \in DOMAIN f : f[i] = f[j] => i = j}

\* The sets of spans with at most one span of each name
PermSets ==
    {S \in SUBSET {PermSpan(k, st) : k \in 1..MaxSpans, st \in {0, 500, 1000, 1500}} :
        /\ \A x \in S : \E k \in 1..MaxSpans :
              x.operationName = PermNames[k] /\ x.startTime \in PermStarts[k]
        /\ \A x, y \in S : x.operationName = y.operationName => x = y}

InitPerm ==
    /\ \E S \in PermSets : \E one \in Orderings(S), other \in Orderings(S) :
          store = <<[traceID |-> "t1", spans |-> one], [traceID |-> "t2", spans |-> other]>>
    /\ Idle

SpecPerm == InitPerm /\ [][Next]_vars

\* The two span lists hold the same spans, each once
SameSpans(a, b) ==
    /\ Len(a) = Len(b)
    /\ {a[i] : i \in DOMAIN a} = {b[i] : i \in DOMAIN b}
    /\ Cardinality({a[i] : i \in DOMAIN a}) = Len(a)

DistinctStarts(spans) ==
    \A i, j \in DOMAIN spans : spans[i].startTime = spans[j].startTime => i = j

\* The place of the step of that name
PlaceOf(t, name) == CHOOSE j \in DOMAIN t.steps : t.steps[j].name = name

(* C18 as stated: the same spans in any two orders give the same sequence   *)
(* of Steps, spans of one start time included                               *)
C18_Original ==
    \A p, q \in Pairs :
        SameSpans(p.blob.spans, q.blob.spans) => p.trace.steps = q.trace.steps

(* C18 amended: the same spans in any two orders give the same sequence of  *)
(* Steps when their start times are pairwise distinct; spans that share a   *)
(* start time come out in the order the input gave them                     *)
C18_StableUnderReordering ==
    /\ \A p, q \in Pairs :
          (SameSpans(p.blob.spans, q.blob.spans) /\ DistinctStarts(p.blob.spans))
              => p.trace.steps = q.trace.steps
    /\ \A p \in Pairs : \A i, j \in DOMAIN p.blob.spans :
          (i < j /\ p.blob.spans[i].startTime = p.blob.spans[j].startTime)
              => PlaceOf(p.trace, p.blob.spans[i].operationName)
                    < PlaceOf(p.trace, p.blob.spans[j].operationName)

\* One search over two traces of the spans P, Q, R: of distinct start times
\* and in opposite orders, they give the same Steps
C18_Witness ==
    /\ result.kind = "search"
    /\ Len(result.traces) = 2
    /\ Len(store[1].spans) = 3
    /\ DistinctStarts(store[1].spans)
    /\ \A i \in 1..3 : store[2].spans[i] = store[1].spans[4 - i]
    /\ result.traces[1].steps = result.traces[2].steps

-----------------------------------------------------------------------------
(* Search over one backend page: up to MaxPage raw traces of one span each, *)
(* ok or failed, of user u1, of user u2 or of no user, or without any span; *)
(* the trace at place i of the page has the identifier PageIds[i]           *)

\* The most raw traces in one backend page
MaxPage == 5

PageIds == <<"t1", "t2", "t3", "t4", "t5", "t6", "t7">>

PageSpans ==
    {<<>>,
     <<TimedSpan("op1", "a", <<>>, 0, 1500, <<Tag("user_id", PyS("u1"))>>)>>,
     <<TimedSpan("op1", "a", <<>>, 0, 1500, <<Tag("error", PyTrue)>>)>>,
     <<TimedSpan("op1", "a", <<>>, 0, 1500,
                 <<Tag("user_id", PyS("u1")), Tag("error", PyTrue)>>)>>,
     <<TimedSpan("op1", "a", <<>>, 0, 1500,
                 <<Tag("user_id", PyS("u2")), Tag("error", PyTrue)>>)>>}

Page(spanlists) ==
    [i \in DOMAIN spanlists |-> [traceID |-> PageIds[i], spans |-> spanlists[i]]]

\* Search parameters with the client-side filters and a limit
PageParams ==
    [start_time : {NoDt}, end_time : {NoDt},
     status : {None, PyS("ok"), PyS("failed")},
     user_id : {None, PyS(""), PyS("u1")},
     limit : {1, 2}, operation : {None}]

InitPage ==
    /\ \E spanlists \in SeqsUpTo(PageSpans, MaxPage) : store = Page(spanlists)
    /\ Idle

NextPage == SearchTraces(PageParams, ClockOne, ZoneUtc, {"ok"})

SpecPage == InitPage /\ [][NextPage]_vars

\* The search that ran, and the page it was answered with
Searched == pc = "done" /\ call.op = "search_traces" /\ result.kind = "search"

StatusGiven(params) == params.status # None
UserGiven(params) == params.user_id # None /\ params.user_id # PyS("")

\* What the raw trace shows: it has spans, it is failed when a span carries
\* an error signal, its user is the user_id tag of its only span
RawStatus(blob) ==
    IF \A i \in DOMAIN blob.spans : Quiet(blob.spans[i]) THEN "ok" ELSE "failed"
RawUser(blob) ==
    IF blob.spans # <<>> /\ Has(blob.spans[1].tags, "user_id")
    THEN First(blob.spans[1].tags, "user_id")
    ELSE None

\* The raw trace reconstructs and passes the filters that are given
Matches(params, blob) ==
    /\ blob.spans # <<>>
    /\ StatusGiven(params) => RawStatus(blob) = params.status.v
    /\ UserGiven(params) => RawUser(blob) = params.user_id

\* The identifiers of the matching traces of the page, in backend order
Matching(params, page) ==
    LET hits == SelectSeq(page, LAMBDA b : Matches(params, b))
    IN  [i \in DOMAIN hits |-> hits[i].traceID]

ReturnedIds == [i \in DOMAIN result.traces |-> result.traces[i].trace_id]

Smaller(a, b) == IF a < b THEN a ELSE b

(* C13: of the M traces of the page that pass the filters after            *)
(* reconstruction, search returns min(M, limit), has_more is M > limit, and *)
(* the traces returned are the first matching ones in backend order         *)
C13_PageTruncation ==
    Searched =>
        LET ids == Matching(call.params, store)
            M   == Len(ids)
        IN  /\ M <= Len(store)
            /\ Len(result.traces) = Smaller(M, call.params.limit)
            /\ result.has_more = (M > call.params.limit)
            /\ ReturnedIds = SubSeq(ids, 1, Len(result.traces))
            /\ result.has_more => Len(result.traces) = call.params.limit

\* Three of four traces match the status filter, the limit is 2: the first
\* two matching traces come back, has_more is true
C13_Witness ==
    /\ Searched
    /\ Len(store) = 4
    /\ call.params.status = PyS("failed") /\ call.params.limit = 2
    /\ Matching(call.params, store) = <<"t1", "t3", "t4">>
    /\ ReturnedIds = <<"t1", "t3">>
    /\ result.has_more

(* C14: total is the number of traces of the page left after               *)
(* reconstruction and filtering, before the cut to limit, so it is at       *)
(* least the number of traces returned                                      *)
C14_TotalIsPostFilterCount ==
    Searched =>
        /\ result.total = Len(Matching(call.params, store))
        /\ result.total >= Len(result.traces)

\* Five traces, three of them matching, limit 1: total is 3, one returned
C14_Witness ==
    /\ Searched
    /\ Len(store) = 5
    /\ call.params.limit = 1
    /\ Len(Matching(call.params, store)) = 3
    /\ result.total = 3
    /\ Len(result.traces) = 1

(* C15: every trace returned has the status asked for and the user asked    *)
(* for, when one is given (a user filter that is the empty string filters   *)
(* nothing); every trace of the page that reconstructs and matches is       *)
(* returned unless limit traces were returned before it; with no filter     *)
(* every trace that reconstructs is counted                                 *)
C15_FilterExact ==
    Searched =>
        LET params == call.params
        IN  /\ \A i \in DOMAIN result.traces :
                  /\ StatusGiven(params) => result.traces[i].status = params.status.v
                  /\ UserGiven(params) => result.traces[i].user_id = params.user_id
            /\ \A i \in DOMAIN store :
                  Matches(params, store[i]) =>
                      \/ \E j \in DOMAIN result.traces :
                            result.traces[j].trace_id = store[i].traceID
                      \/ Len(result.traces) = params.limit
            /\ (~StatusGiven(params) /\ ~UserGiven(params)) =>
                  result.total = Cardinality({i \in DOMAIN store : store[i].spans # <<>>})

\* Status failed and user u1 asked for: of a failed trace of u2, an ok trace
\* of u1 and a failed trace of u1, the last alone comes back
C15_Witness ==
    /\ Searched
    /\ Len(store) = 3
    /\ call.params.status = PyS("failed") /\ call.params.user_id = PyS("u1")
    /\ \A i \in 1..3 : store[i].spans # <<>>
    /\ RawStatus(store[1]) = "failed" /\ RawUser(store[1]) = PyS("u2")
    /\ RawStatus(store[2]) = "ok" /\ RawUser(store[2]) = PyS("u1")
    /\ ReturnedIds = <<"t3">>

\* status = failed and limit = 2 against a page of five traces, three of
\* which reconstruct to failed
FivePageThreeFailed ==
    /\ Searched
    /\ call.params.status = PyS("failed") /\ call.params.user_id = None
    /\ call.params.limit = 2
    /\ Len(store) = 5
    /\ Cardinality({i \in DOMAIN store :
            store[i].spans # <<>> /\ RawStatus(store[i]) = "failed"}) = 3

(* C16 as stated: that search returns total 2, has_more true and two        *)
(* traces                                                                   *)
C16_Original ==
    FivePageThreeFailed =>
        (result.total = 2 /\ result.has_more /\ Len(result.traces) = 2)

(* C16 amended: that search returns total 3, has_more true and two traces   *)
C16_FivePageScenario ==
    FivePageThreeFailed =>
        (result.total = 3 /\ result.has_more /\ Len(result.traces) = 2)

\* The scenario with the failed traces at places 1, 3 and 5
C16_Witness ==
    /\ FivePageThreeFailed
    /\ \A i \in {1, 3, 5} : store[i].spans # <<>> /\ RawStatus(store[i]) = "failed"
    /\ ReturnedIds = <<"t1", "t3">>
    /\ result.total = 3

-----------------------------------------------------------------------------
(* The query sent upstream: searches with and without time bounds and an    *)
(* operation, at clock reads a microsecond or a second apart, in a process  *)
(* whose local zone is UTC, UTC+1 or UTC-5                                  *)

\* Instants, in seconds and microseconds after the base epoch (UTC)
Clocks == {Dt(7200, 0), Dt(7200, 999999), Dt(7201, 0)}

\* The local zone of the process, in seconds east of UTC
Zones == {0, 3600, -18000}

QuerySearches ==
    [start_time : {NoDt, Dt(3000, 0)},
     end_time : {NoDt, Dt(3600, 0), Dt(7200, 5), Dt(20000, 0)},
     status : {None, PyS("failed")}, user_id : {None, PyS("u1")},
     limit : {1, 20}, operation : {None, PyS(""), PyS("op1")}]

InitQuery ==
    /\ \E spanlists \in SeqsUpTo(PageSpans, 1) : store = Page(spanlists)
    /\ Idle

NextQuery == SearchTraces(QuerySearches, Clocks, Zones, {"ok", "timeout"})

SpecQuery == InitQuery /\ [][NextQuery]_vars

\* search_traces ran: the parameters of the one request it sent
Queried == pc = "done" /\ call.op = "search_traces"
Query == sent[Len(sent)].params

\* An instant as the microsecond epoch integer n, written
\* [sec |-> n \div 10^6, usec |-> n % 10^6]
EpochOf(instant) == [sec |-> instant.sec, usec |-> instant.usec]

HourBefore(epoch) == [sec |-> epoch.sec - 3600, usec |-> epoch.usec]

(* C19 as stated: a search with neither start nor end time sends end = now  *)
(* and start = now minus one hour, as microsecond epoch integers, now being *)
(* the clock at each of the two reads                                       *)
C19_Original ==
    (Queried /\ call.params.start_time = NoDt /\ call.params.end_time = NoDt) =>
        /\ Query.end = EpochOf(call.now1)
        /\ Query.start = HourBefore(EpochOf(call.now2))

(* C20 as stated: a search without a start time sends start = end minus one *)
(* hour, whether the end is the clock's (then up to the time between the    *)
(* two clock reads) or one the caller supplied, so that start <= end        *)
C20_Original ==
    (Queried /\ call.params.start_time = NoDt) =>
        /\ call.params.end_time # NoDt => Query.start = HourBefore(Query.end)
        /\ DtLe(HourBefore(Query.end), Query.start)
        /\ DtLe(Query.start, Query.end)

\* An operation filter is given: not None, not the empty string
OperationGiven(params) == params.operation # None /\ params.operation # PyS("")

(* C21: a search sends upstream the configured service name, the caller's   *)
(* limit, start and end, and the operation exactly when an operation filter *)
(* is given; the status and user filters are not sent, they bear on the     *)
(* traces returned only                                                     *)
C21_QueryFrame ==
    Queried =>
        /\ DOMAIN Query = {"service", "limit", "start", "end"}
                \cup (IF OperationGiven(call.params) THEN {"operation"} ELSE {})
        /\ Query.service = "AIAssistantInfra/aiai-api"
        /\ Query.limit = call.params.limit
        /\ OperationGiven(call.params) => Query.operation = call.params.operation
        /\ result.kind = "search" =>
              \A i \in DOMAIN result.traces :
                  /\ StatusGiven(call.params) => result.traces[i].status = call.params.status.v
                  /\ UserGiven(call.params) => result.traces[i].user_id = call.params.user_id

\* A search with a status, a user and an operation filter, limit 20: the
\* operation is sent, the other two filters are not, and the one trace of
\* the page that matches them comes back
C21_Witness ==
    /\ Queried
    /\ call.params.status = PyS("failed") /\ call.params.user_id = PyS("u1")
    /\ call.params.operation = PyS("op1") /\ call.params.limit = 20
    /\ DOMAIN Query = {"service", "limit", "start", "end", "operation"}
    /\ Query.limit = 20
    /\ result.kind = "search" /\ Len(result.traces) = 1

-----------------------------------------------------------------------------
(* routers/traces.py: GET /api/traces/{trace_id} *)

\* What the HTTP layer answers for what get_trace gave: None is an
\* HTTPException(404), a Trace is the 200 body, an exception that leaves the
\* handler is the framework's 500
HttpNotFound_AsServerError(trace_id, returned) ==
    IF returned.kind = "trace"
    THEN [kind |-> "http", status |-> 200, detail |-> "", body |-> returned]
    ELSE [kind |-> "http", status |-> 500, detail |-> "Internal Server Error",
          body |-> None]

HttpResponse(trace_id, returned) ==
    CASE returned.kind = "none" ->
            [kind |-> "http", status |-> 404,
             detail |-> "Trace not found: " \o trace_id, body |-> None]
      [] returned.kind = "trace" ->
            [kind |-> "http", status |-> 200, detail |-> "", body |-> returned]
      [] OTHER ->
            [kind |-> "http", status |-> 500, detail |-> "Internal Server Error",
             body |-> None]

\* The handler: trace = await jaeger_service.get_trace(trace_id), then the
\* 404 or the trace
GetTraceEndpoint(Outs) ==
    /\ pc = "idle"
    /\ \E trace_id \in {store[i].traceID : i \in DOMAIN store} \cup {"absent"},
          outcome \in Outs :
         \E data \in IF outcome = "ok"
                     THEN {SelectSeq(store, LAMBDA b : b.traceID = trace_id), <<>>}
                     ELSE {<<>>} :
            /\ call' = [op |-> "GET /api/traces/{trace_id}", trace_id |-> trace_id,
                        outcome |-> outcome, data |-> data,
                        returned |-> GetTraceResult(outcome, data)]
            /\ sent' = sent \o Requests([method |-> "GET", path |-> "/api/traces/{id}",
                                          trace_id |-> trace_id], outcome)
            /\ result' = HttpResponse(trace_id, GetTraceResult(outcome, data))
    /\ pc' = "done"
    /\ UNCHANGED <<store, others>>

InitGet ==
    /\ \E spanlists \in SeqsUpTo(PageSpans, 3) : store = Page(spanlists)
    /\ Idle

NextGet == GetTrace(Outcomes) \/ GetTraceEndpoint(Outcomes)

SpecGet == InitGet /\ [][NextGet]_vars

\* get_trace ran, by itself or under the endpoint; what it gave
Fetched == pc = "done" /\ call.op \in {"get_trace", "GET /api/traces/{trace_id}"}
Given == IF call.op = "get_trace" THEN result ELSE call.returned

\* The body the store answered with holds no span: an empty data list, or a
\* first trace with an empty span list
ZeroSpans(data) == data = <<>> \/ data[1].spans = <<>>

(* C22: get_trace gives NotFound exactly when the store answers 404 or the  *)
(* body it answers with holds no span; any other failure of the store (500, *)
(* timeout, connection failure, malformed body) is raised, never NotFound;  *)
(* and the endpoint answers NotFound with 404 "Trace not found: <id>"       *)
C22_NotFoundExactly ==
    Fetched =>
        /\ Given = NotFound <=>
              (call.outcome = "404" \/ (call.outcome = "ok" /\ ZeroSpans(call.data)))
        /\ call.outcome \in {"500", "timeout", "connect_error", "bad_json"} =>
              Given = Raised(call.outcome)
        /\ call.op = "GET /api/traces/{trace_id}" =>
              /\ Given = NotFound <=> result.status = 404
              /\ result.status = 404 =>
                    result.detail = "Trace not found: " \o call.trace_id
              /\ Given.kind = "raise" <=> result.status = 500

\* The endpoint asked for a trace the store holds with no span, the store
\* answered 200, and the answer is the 404
C22_Witness ==
    /\ pc = "done" /\ call.op = "GET /api/traces/{trace_id}"
    /\ call.outcome = "ok" /\ call.data # <<>> /\ call.data[1].spans = <<>>
    /\ result.status = 404 /\ result.detail = "Trace not found: t1"

-----------------------------------------------------------------------------
(* Spans whose JSON objects lack fields *)

MaxMalformed == 2

\* The object without the keys in drop
Without(obj, drop) == [k \in DOMAIN obj \ drop |-> obj[k]]

\* A span with every field, one failed tag and one log entry
WholeSpan ==
    [spanID |-> "a", operationName |-> "op1", references |-> <<Ref("CHILD_OF", "a")>>,
     startTime |-> 2500, duration |-> 1500, tags |-> <<Tag("error", PyTrue)>>,
     logs |-> <<[timestamp |-> 0, fields |-> <<Tag("message", PyS("m1"))>>]>>]

SpanFields ==
    {"spanID", "operationName", "references", "startTime", "duration", "tags", "logs"}

\* The span short of one field, of all but its identifier, or of all but its
\* tags
ShortSpans ==
    {Without(WholeSpan, drop) :
        drop \in {{}} \cup {{k} : k \in SpanFields}
                 \cup {SpanFields \ {"spanID"}, SpanFields \ {"tags"}}}

\* The span with an entry short of its key or of its value among its tags,
\* the fields of its log entry or its references, or a log entry without
\* fields
ShortEntries ==
    {[WholeSpan EXCEPT !.tags = <<Without(Tag("error", PyTrue), drop)>>] :
        drop \in {{"key"}, {"value"}}}
    \cup {[WholeSpan EXCEPT !.logs = <<[timestamp |-> 0,
                                         fields |-> <<Without(Tag("error", PyS("e1")), drop)>>]>>] :
        drop \in {{"key"}, {"value"}}}
    \cup {[WholeSpan EXCEPT !.logs = <<[timestamp |-> 0]>>]}
    \cup {[WholeSpan EXCEPT !.references = <<Without(Ref("CHILD_OF", "a"), drop)>>] :
        drop \in {{"refType"}, {"spanID"}}}

MalformedSpans == ShortSpans \cup ShortEntries

\* One trace of up to MaxMalformed such spans, or a page of up to
\* MaxMalformed traces of one such span each
InitMalformed ==
    /\ \/ \E spans \in SeqsUpTo(MalformedSpans, MaxMalformed) :
             store = <<[traceID |-> "t1", spans |-> spans]>>
       \/ \E spans \in SeqsUpTo(MalformedSpans, MaxMalformed) :
             store = [i \in DOMAIN spans |-> [traceID |-> PageIds[i], spans |-> <<spans[i]>>]]
    /\ Idle

NextMalformed ==
    \/ Reconstruct
    \/ GetTrace({"ok", "500", "timeout"})
    \/ SearchTraces(DefaultParams, ClockOne, ZoneUtc, {"ok", "500", "timeout"})

SpecMalformed == InitMalformed /\ [][NextMalformed]_vars

(* C23 as stated: on a non-empty span list reconstruction gives a Trace,    *)
(* whatever fields the spans and their tag, log-field and reference entries *)
(* lack                                                                     *)
C23_Original ==
    (Parsed /\ call.data # <<>> /\ call.data[1].spans # <<>>) => result.kind = "trace"

-----------------------------------------------------------------------------
(* The requests of one call *)

InitUpstream ==
    /\ \E spanlists \in SeqsUpTo(PageSpans, 2) : store = Page(spanlists)
    /\ Idle

NextUpstream ==
    \/ GetTrace(Outcomes)
    \/ SearchTraces(DefaultParams, ClockOne, ZoneUtc, Outcomes)
    \/ GetOperations({None, PyS(""), PyS("svc2")}, Outcomes)
    \/ GetServices(Outcomes)

SpecUpstream == InitUpstream /\ [][NextUpstream]_vars

\* The call failed upstream
UpstreamFailed == call.outcome \notin {"ok", "none"}

(* C24: a call of get_trace, search_traces or get_operations sends at most  *)
(* one request to the store, a GET; when the store fails, nothing is sent   *)
(* after the request that failed, and the failure is what the call gives,   *)
(* but for get_trace's NotFound on a 404                                    *)
C24_OneRequestNoRetry ==
    pc = "done" =>
        /\ Len(sent) <= 1
        /\ \A i \in DOMAIN sent : sent[i].method = "GET"
        /\ UpstreamFailed =>
              /\ Len(sent) = 1
              /\ result = IF call.op = "get_trace" /\ call.outcome = "404"
                          THEN NotFound ELSE Raised(call.outcome)

\* get_operations without a service met a timeout: the one request, for the
\* configured service, and the timeout raised
C24_Witness ==
    /\ pc = "done" /\ call.op = "get_operations" /\ call.service = None
    /\ call.outcome = "timeout"
    /\ sent = <<[method |-> "GET", path |-> "/api/services/{service}/operations",
                 service |-> PyS("AIAssistantInfra/aiai-api")]>>
    /\ result = Raised("timeout")

\* Reconstruction of the raw trace fails on a subscript
Broken(blob) ==
    blob.spans # <<>> /\ (LacksSpanId(blob.spans) \/ LacksTagOrField(blob.spans))

\* The trace holds a step for every span of the raw trace
Whole(trace, blob) == Len(trace.steps) = Len(blob.spans)

(* C25: get and search give all or nothing: when the fetch times out or     *)
(* fails, or the reconstruction of any trace of the answer fails, the call  *)
(* raises; a Trace that is given holds every span of its raw trace, and a   *)
(* search result that is given counts every trace of the page that has      *)
(* spans (no filter being set)                                              *)
C25_AllOrNothing ==
    (pc = "done" /\ call.op \in {"get_trace", "search_traces"}) =>
        /\ call.outcome # "ok" => result = Raised(call.outcome)
        /\ (\E i \in DOMAIN call.data : Broken(call.data[i])) => result = Raised("KeyError")
        /\ result.kind = "trace" => Whole(result, call.data[1])
        /\ result.kind = "search" =>
              /\ result.total = Cardinality({i \in DOMAIN call.data : call.data[i].spans # <<>>})
              /\ \A i \in DOMAIN result.traces :
                    \E j \in DOMAIN call.data :
                        /\ call.data[j].traceID = result.traces[i].trace_id
                        /\ Whole(result.traces[i], call.data[j])

\* A search was answered with a page of two traces, the first sound and the
\* second with a tag that lacks its value: the search raises
C25_Witness ==
    /\ pc = "done" /\ call.op = "search_traces" /\ call.outcome = "ok"
    /\ Len(call.data) = 2
    /\ call.data[1].spans = <<WholeSpan>>
    /\ call.data[2].spans = <<[WholeSpan EXCEPT !.tags = <<[key |-> "error"]>>]>>
    /\ result = Raised("KeyError")

-----------------------------------------------------------------------------
(* models/health.py and services/health_aggregator.py *)

\* ServiceStatus
StatusOk == "ok"
StatusDegraded == "degraded"
StatusDown == "down"
StatusUnknown == "unknown"
ServiceStatus == {StatusOk, StatusDegraded, StatusDown, StatusUnknown}

\* Mutant: a degraded service is looked for before a down one
calculate_overall_DegradedFirst(statuses) ==
    IF \A i \in DOMAIN statuses : statuses[i] = StatusOk THEN StatusOk
    ELSE IF \E i \in DOMAIN statuses : statuses[i] = StatusDegraded THEN StatusDegraded
    ELSE IF \E i \in DOMAIN statuses : statuses[i] = StatusDown THEN StatusDown
    ELSE StatusUnknown

\* HealthCheckResponse.calculate_overall on the statuses of services.values()
calculate_overall(statuses) ==
    IF \A i \in DOMAIN statuses : statuses[i] = StatusOk THEN StatusOk
    ELSE IF \E i \in DOMAIN statuses : statuses[i] = StatusDown THEN StatusDown
    ELSE IF \E i \in DOMAIN statuses : statuses[i] = StatusDegraded THEN StatusDegraded
    ELSE StatusUnknown

check_names == <<"aiai_api", "mli", "mcp_proxy", "jaeger">>

\* What asyncio.gather(..., return_exceptions=True) holds for one check: the
\* ServiceHealth it returned or the exception it raised
CheckResults ==
    {[kind |-> "health", status |-> st] : st \in ServiceStatus}
    \cup {Raised("RuntimeError")}

\* The loop over zip(check_names, results): the services dict, in insertion
\* order
Reported(results) ==
    [i \in DOMAIN results |->
        [name   |-> check_names[i],
         status |-> IF results[i].kind = "raise" THEN StatusUnknown
                    ELSE results[i].status]]

\* check_all(): the four checks gathered, then the response and its overall
\* status
CheckAll ==
    /\ pc = "idle"
    /\ \E results \in [1..Len(check_names) -> CheckResults] :
         LET services == Reported(results)
         IN  /\ call' = [op |-> "check_all", outcome |-> "ok", data |-> results]
             /\ result' = [kind     |-> "health",
                           services |-> services,
                           overall  |-> calculate_overall(
                                            [i \in DOMAIN services |-> services[i].status])]
    /\ pc' = "done"
    /\ UNCHANGED <<store, sent, others>>

\* The most services in a response whose overall status is calculated
MaxServices == 4

\* calculate_overall() on a response of any services
CalculateOverall ==
    /\ pc = "idle"
    /\ \E statuses \in SeqsUpTo(ServiceStatus, MaxServices) :
         /\ call' = [op |-> "calculate_overall", outcome |-> "ok", data |-> statuses]
         /\ result' = [kind |-> "status", overall |-> calculate_overall(statuses)]
    /\ pc' = "done"
    /\ UNCHANGED <<store, sent, others>>

InitHealth == store = <<>> /\ Idle

NextHealth == CheckAll \/ CalculateOverall

SpecHealth == InitHealth /\ [][NextHealth]_vars

\* OK < UNKNOWN < DEGRADED < DOWN
Rank(st) ==
    CASE st = "ok" -> 0 [] st = "unknown" -> 1 [] st = "degraded" -> 2 [] st = "down" -> 3

\* The statuses the overall status was calculated from
Statuses ==
    IF call.op = "check_all"
    THEN [i \in DOMAIN result.services |-> result.services[i].status]
    ELSE call.data

\* The same statuses in another order
Reorderings(statuses) ==
    {[i \in DOMAIN statuses |-> statuses[p[i]]] :
        p \in {q \in [DOMAIN statuses -> DOMAIN statuses] :
                  \A i, j \in DOMAIN statuses : q[i] = q[j] => i = j}}

(* C27: the overall status is the join of the services' statuses: OK iff    *)
(* every one is OK, DOWN iff one is DOWN, DEGRADED iff none is DOWN and one *)
(* is DEGRADED, UNKNOWN otherwise; it is the greatest status under          *)
(* OK < UNKNOWN < DEGRADED < DOWN and the same in every order of the        *)
(* services; check_all reports the four services aiai_api, mli, mcp_proxy   *)
(* and jaeger, a check that raised as UNKNOWN                               *)
C27_HealthJoin ==
    (pc = "done" /\ call.op \in {"check_all", "calculate_overall"}) =>
        LET sts == {Statuses[i] : i \in DOMAIN Statuses}
        IN  /\ result.overall = "ok" <=> sts \subseteq {"ok"}
            /\ result.overall = "down" <=> "down" \in sts
            /\ result.overall = "degraded" <=> ("down" \notin sts /\ "degraded" \in sts)
            /\ result.overall = "unknown" <=>
                  ("unknown" \in sts /\ "down" \notin sts /\ "degraded" \notin sts)
            /\ \A st \in sts : Rank(st) <= Rank(result.overall)
            /\ sts # {} => result.overall \in sts
            /\ \A other \in Reorderings(Statuses) : calculate_overall(other) = result.overall
            /\ call.op = "check_all" =>
                  /\ [i \in DOMAIN result.services |-> result.services[i].name]
                        = <<"aiai_api", "mli", "mcp_proxy", "jaeger">>
                  /\ \A i \in DOMAIN call.data :
                        result.services[i].status =
                            IF call.data[i].kind = "raise" THEN "unknown"
                            ELSE call.data[i].status

\* The mli check raised, the jaeger check found its service degraded, the
\* other two are OK: four services reported, mli as UNKNOWN, overall DEGRADED
C27_Witness ==
    /\ pc = "done" /\ call.op = "check_all"
    /\ call.data = <<[kind |-> "health", status |-> "ok"], Raised("RuntimeError"),
                     [kind |-> "health", status |-> "ok"],
                     [kind |-> "health", status |-> "degraded"]>>
    /\ Len(result.services) = 4
    /\ result.services[2] = [name |-> "mli", status |-> "unknown"]
    /\ result.overall = "degraded"

-----------------------------------------------------------------------------
(* Concurrent calls on the one JaegerService of routers/traces.py *)

\* The coroutines that run at once
TaskIds == {"t1", "t2"}

\* Mutant: the response is kept on the shared instance, where a call
\* answered earlier and not yet closed has left its own
Delivered_Shared(ts, t, response) ==
    LET held == {u \in DOMAIN ts : u # t /\ ts[u].pc = "closing"}
    IN  IF held = {} THEN response ELSE ts[CHOOSE u \in held : TRUE].response

\* response = await client.get(...): the response is a local of the call
Delivered(ts, t, response) == response

\* What a call makes of the response it holds
CallResult(task, response) ==
    IF task.op = "get_trace" THEN GetTraceResult(response.outcome, response.data)
    ELSE IF response.outcome = "ok" THEN SearchResult(task.params, response.data)
    ELSE Raised(response.outcome)

\* get_trace up to its `await client.get(url)`
BeginGet(t) ==
    /\ tasks[t].pc = "start"
    /\ \E trace_id \in {store[i].traceID : i \in DOMAIN store} \cup {"absent"} :
         LET request == [method |-> "GET", path |-> "/api/traces/{id}",
                         trace_id |-> trace_id, base_url |-> svc.base_url,
                         timeout |-> svc.timeout]
         IN  /\ tasks' = [tasks EXCEPT ![t] =
                            [pc |-> "awaiting", op |-> "get_trace", trace_id |-> trace_id,
                             request |-> request]]
             /\ sent' = Append(sent, request)
    /\ UNCHANGED <<store, pc, call, result, svc, cache, clients>>

\* search_traces up to its `await client.get(url, params=query_params)`
BeginSearch(t, P, Clock, Zns) ==
    /\ tasks[t].pc = "start"
    /\ \E params \in P, now \in Clock, zone \in Zns :
         LET request == [method |-> "GET", path |-> "/api/traces",
                         params |-> [QueryParams(params, now, now, zone)
                                        EXCEPT !.service = svc.service_name],
                         base_url |-> svc.base_url, timeout |-> svc.timeout]
         IN  /\ tasks' = [tasks EXCEPT ![t] =
                            [pc |-> "awaiting", op |-> "search_traces", params |-> params,
                             request |-> request]]
             /\ sent' = Append(sent, request)
    /\ UNCHANGED <<store, pc, call, result, svc, cache, clients>>

\* The store answers the request of one call, which runs on to the end of
\* its `async with` block, where closing the client suspends it again
Answer(t, Outs) ==
    /\ tasks[t].pc = "awaiting"
    /\ \E outcome \in Outs :
         \E data \in IF outcome # "ok" THEN {<<>>}
                     ELSE IF tasks[t].op = "search_traces" THEN {store}
                     ELSE {SelectSeq(store, LAMBDA b : b.traceID = tasks[t].trace_id)} :
            LET response == [outcome |-> outcome, data |-> data]
                mine     == Delivered(tasks, t, response)
            IN  tasks' = [tasks EXCEPT ![t] =
                            [tasks[t] EXCEPT !.pc = "closing"]
                                @@ [response |-> response,
                                    value |-> CallResult(tasks[t], mine)]]
    /\ UNCHANGED <<store, pc, call, sent, result, svc, cache, clients>>

\* The client is closed and the call returns or raises
Close(t) ==
    /\ tasks[t].pc = "closing"
    /\ tasks' = [tasks EXCEPT ![t] = [tasks[t] EXCEPT !.pc = "done"]]
    /\ UNCHANGED <<store, pc, call, sent, result, svc, cache, clients>>

InitConcurrent ==
    /\ \E spanlists \in SeqsUpTo(PageSpans, 2) : store = Page(spanlists)
    /\ pc = "idle"
    /\ call = [op |-> "none", outcome |-> "none", data |-> <<>>]
    /\ sent = <<>>
    /\ result = [kind |-> "idle"]
    /\ svc = Settings
    /\ tasks = [t \in TaskIds |-> [pc |-> "start"]]
    /\ cache = <<>>
    /\ clients = <<>>

NextConcurrent ==
    \E t \in TaskIds :
        \/ BeginGet(t)
        \/ BeginSearch(t, DefaultParams, ClockOne, ZoneUtc)
        \/ Answer(t, {"ok", "404", "timeout"})
        \/ Close(t)

SpecConcurrent == InitConcurrent /\ [][NextConcurrent]_vars

\* What the call gives when it runs alone with its parameters and the
\* response it was answered with
Alone(task) ==
    IF task.op = "get_trace"
    THEN GetTraceResult(task.response.outcome, task.response.data)
    ELSE IF task.response.outcome = "ok"
         THEN SearchResult(task.params, task.response.data)
         ELSE Raised(task.response.outcome)

(* C26: whatever the interleaving of the calls on the shared service, each  *)
(* call gives what it gives alone with its parameters and the response it   *)
(* was answered with, and the fields of the service stay as constructed     *)
C26_CallsIndependent ==
    /\ svc = Settings
    /\ \A t \in DOMAIN tasks :
          tasks[t].pc \in {"closing", "done"} => tasks[t].value = Alone(tasks[t])

\* Both calls are over, they were answered differently (a trace for one, a
\* 404 for the other, answered first), and each has its own result
C26_Witness ==
    /\ tasks["t1"].pc = "done" /\ tasks["t2"].pc = "done"
    /\ tasks["t1"].op = "get_trace" /\ tasks["t2"].op = "get_trace"
    /\ tasks["t1"].value.kind = "trace"
    /\ tasks["t2"].value = NotFound /\ tasks["t2"].response.outcome = "404"
    /\ sent[1].trace_id = "absent"

-----------------------------------------------------------------------------
(* services/passport_auth.py and routers/aiai.py: the session cache *)

\* settings.aiai_base_url
AiaiUrl == "http://localhost:8000"

\* cache_key = (username or "anonymous", aiai_url)
CacheKey(username, aiai_url) ==
    <<IF Truthy(username) THEN username.v ELSE "anonymous", aiai_url>>

\* self._session_cache[cache_key] = client
CachePut(c, key, client) ==
    [k \in DOMAIN c \cup {key} |-> IF k = key THEN client ELSE c[k]]

\* httpx.AsyncClient(...): a new client, open, with no session
NewClient(by, login) == [by |-> by, login |-> login, session |-> FALSE, closed |-> FALSE]

\* get_authenticated_client(aiai_url, username, password) up to its return or
\* to the first await of _authenticate, which has created its client by
\* then; `after` is where the caller goes on
AuthBegin(t, aiai_url, username, password, via, after) ==
    LET key  == CacheKey(username, aiai_url)
        args == [via |-> via, after |-> after, username |-> username,
                 password |-> password, key |-> key]
    IN  /\ tasks[t].pc = "start"
        /\ IF key \in DOMAIN cache
           THEN /\ tasks' = [tasks EXCEPT ![t] =
                                args @@ [pc |-> after, client |-> cache[key],
                                         is_authenticated |-> TRUE]]
                /\ UNCHANGED <<cache, clients>>
           ELSE IF ~Truthy(username) \/ ~Truthy(password)
           THEN /\ clients' = Append(clients, NewClient(t, FALSE))
                /\ tasks' = [tasks EXCEPT ![t] =
                                args @@ [pc |-> after, client |-> Len(clients) + 1,
                                         is_authenticated |-> FALSE]]
                /\ UNCHANGED cache
           ELSE /\ clients' = Append(clients, NewClient(t, TRUE))
                /\ tasks' = [tasks EXCEPT ![t] =
                                args @@ [pc |-> "login", client |-> Len(clients) + 1]]
                /\ UNCHANGED cache

\* A caller of PassportAuthService.get_authenticated_client
GetAuthenticatedClient(t, Users, Passwords) ==
    /\ \E username \in Users, password \in Passwords :
         AuthBegin(t, AiaiUrl, username, password, "direct", "done")
    /\ UNCHANGED <<store, pc, call, sent, result, svc>>

\* The login flow ends: on success the client is cached and returned with
\* True; on an exception _authenticate closes its client and the caller gets
\* a new client with False
AuthEnd(t, Logins) ==
    /\ tasks[t].pc = "login"
    /\ \E login \in Logins :
         IF login = "success"
         THEN /\ clients' = [clients EXCEPT ![tasks[t].client].session = TRUE]
              /\ cache' = CachePut(cache, tasks[t].key, tasks[t].client)
              /\ tasks' = [tasks EXCEPT ![t] =
                              [tasks[t] EXCEPT !.pc = tasks[t].after]
                                  @@ [is_authenticated |-> TRUE]]
         ELSE /\ clients' = Append([clients EXCEPT ![tasks[t].client].closed = TRUE],
                                   NewClient(t, FALSE))
              /\ cache' = cache
              /\ tasks' = [tasks EXCEPT ![t] =
                              [tasks[t] EXCEPT !.pc = tasks[t].after,
                                               !.client = Len(clients) + 1]
                                  @@ [is_authenticated |-> FALSE]]
    /\ UNCHANGED <<store, pc, call, sent, result, svc>>

\* The users and passwords a caller passes
Users == {None, PyS(""), PyS("alice"), PyS("anonymous")}
Passwords == {None, PyS("pw")}

InitAuth ==
    /\ store = <<>>
    /\ pc = "idle"
    /\ call = [op |-> "none", outcome |-> "none", data |-> <<>>]
    /\ sent = <<>>
    /\ result = [kind |-> "idle"]
    /\ svc = Settings
    /\ tasks = [t \in TaskIds |-> [pc |-> "start"]]
    /\ cache = <<>>
    /\ clients = <<>>

NextAuth ==
    \E t \in TaskIds :
        \/ GetAuthenticatedClient(t, Users, Passwords)
        \/ AuthEnd(t, {"success", "exception"})

SpecAuth == InitAuth /\ [][NextAuth]_vars

\* The call of task t has returned
Returned(t) == tasks[t].pc = "done"

(* C28 as stated: a call without a username or without a password gets a    *)
(* client made for it, with no session, and False, whatever calls came      *)
(* before it                                                                *)
C28_Original ==
    \A t \in DOMAIN tasks :
        (Returned(t) /\ (~Truthy(tasks[t].username) \/ ~Truthy(tasks[t].password))) =>
            /\ tasks[t].is_authenticated = FALSE
            /\ clients[tasks[t].client].by = t
            /\ ~clients[tasks[t].client].session

-----------------------------------------------------------------------------
(* routers/aiai.py: get_assistants and submit_to_assistant *)

\* settings.passport_username and settings.passport_password
Configured == Truthy(svc.passport_username) /\ Truthy(svc.passport_password)

\* The endpoint up to the return of `client = await _get_client(base_url)`,
\* or to the login it waits for; base_url = aiai_url or settings.aiai_base_url
ProxyBegin(t, Urls) ==
    /\ \E aiai_url \in Urls :
         LET base_url == PyOr(aiai_url, PyS(AiaiUrl)).v
         IN  IF Configured
             THEN AuthBegin(t, base_url, svc.passport_username, svc.passport_password,
                            "endpoint", "request")
             ELSE /\ tasks[t].pc = "start"
                  /\ clients' = Append(clients, NewClient(t, FALSE))
                  /\ tasks' = [tasks EXCEPT ![t] =
                                  [pc |-> "request", via |-> "endpoint",
                                   client |-> Len(clients) + 1]]
                  /\ UNCHANGED cache
    /\ UNCHANGED <<store, pc, call, sent, result, svc>>

\* The POST to the AIAI server and what follows it, whatever its answer: the
\* finally clause closes the client unless credentials are configured
ProxyFinish(t, Answers) ==
    /\ tasks[t].pc = "request"
    /\ \E answer \in Answers :
         tasks' = [tasks EXCEPT ![t] =
                      [tasks[t] EXCEPT !.pc = "done"] @@ [answer |-> answer]]
    /\ clients' = IF Configured THEN clients
                  ELSE [clients EXCEPT ![tasks[t].client].closed = TRUE]
    /\ UNCHANGED <<store, pc, call, sent, result, svc, cache>>

\* The credentials of the settings: none, or a user with its password
Credentials ==
    {[passport_username |-> None, passport_password |-> None],
     [passport_username |-> PyS("alice"), passport_password |-> None],
     [passport_username |-> PyS("alice"), passport_password |-> PyS("pw")]}

InitProxy ==
    /\ store = <<>>
    /\ pc = "idle"
    /\ call = [op |-> "none", outcome |-> "none", data |-> <<>>]
    /\ sent = <<>>
    /\ result = [kind |-> "idle"]
    /\ \E creds \in Credentials : svc = Settings @@ creds
    /\ tasks = [t \in TaskIds |-> [pc |-> "start"]]
    /\ cache = <<>>
    /\ clients = <<>>

NextProxy ==
    \E t \in TaskIds :
        \/ ProxyBegin(t, {None, PyS("http://staging:8000")})
        \/ AuthEnd(t, {"success", "exception"})
        \/ ProxyFinish(t, {"200", "401", "500", "timeout"})

SpecProxy == InitProxy /\ [][NextProxy]_vars

\* The clients the session cache holds
Cached == {cache[k] : k \in DOMAIN cache}

(* C29 as stated: once an endpoint's request is over, the client it got     *)
(* from _get_client is closed or in the session cache, whatever the login   *)
(* came to                                                                  *)
C29_Original ==
    \A t \in DOMAIN tasks :
        (tasks[t].pc = "done" /\ tasks[t].via = "endpoint") =>
            (clients[tasks[t].client].closed \/ tasks[t].client \in Cached)

\* The clients _authenticate made for the key and has not closed: logins
\* under way or come to a session
LoginsFor(key) ==
    {i \in DOMAIN clients :
        clients[i].login /\ ~clients[i].closed /\ tasks[clients[i].by].key = key}

(* C30 as stated: for callers with the same username and URL, from an empty *)
(* cache, one login at most is run for the key, the callers that came back  *)
(* with a session hold the client the cache holds, and no client with a     *)
(* session is outside the cache and open                                    *)
C30_Original ==
    /\ \A t \in DOMAIN tasks :
          tasks[t].pc # "start" => Cardinality(LoginsFor(tasks[t].key)) <= 1
    /\ \A t \in DOMAIN tasks :
          (Returned(t) /\ tasks[t].is_authenticated) =>
              tasks[t].client = cache[tasks[t].key]
    /\ \A i \in DOMAIN clients :
          clients[i].session => (clients[i].closed \/ i \in Cached)

====
